---- MODULE Spec2Model ----
(***************************************************************************)
(* Model of the version-aware sequential upgrade engine of                 *)
(* grapesjs-version-flow: VersionManager (version comparison, pending      *)
(* steps, storage hooks) and UpgradeEngine (runUpgrades,                   *)
(* retryFromFailedStep) with the lifecycle events they emit.               *)
(*                                                                         *)
(* A version identifier is the sequence of its dot-separated segments; a   *)
(* segment is a natural number, or NonNumeric for a segment parseInt maps  *)
(* to NaN.  Null (the empty sequence) stands for a falsy identifier        *)
(* (null, undefined or '').                                                *)
(*                                                                         *)
(* runUpgrades is an async function: every call owns a frame, which is     *)
(* suspended at its awaits (the step's upgrade action, UndoManager.skip).  *)
(* Listeners run synchronously inside EventSystem.emit, so the state at    *)
(* each emit is observable: the code between two such points is one        *)
(* action of the model.                                                    *)
(***************************************************************************)
EXTENDS Integers, Sequences, FiniteSets, TLC

\* ------------------------------------------------------------------ bounds
MaxSteps == 2
MaxCalls == 2
MaxThrows == 1
MaxCatalog == 3
MaxSegments == 3
MaxAddLogs == 1

\* -------------------------------------------------------------- vocabulary
Null == <<>>
NonNumeric == -1

V10 == <<1, 0>>
V11 == <<1, 1>>
V12 == <<1, 2>>
V20 == <<2, 0>>

Targets == {V11, V12, V20}
ConfiguredVersions == {V20}
LoadedTags == {Null, V11}

NoStep == [id |-> 0, builderVersion |-> Null]

\* the identifiers the registry is queried with: '1.2' and '1.2.0' compare
\* equal, '2.1' lies above every current version queried
V120 == <<1, 2, 0>>
V21 == <<2, 1>>

QueryTargets == {V11, V12, V120, V20, V21}
QuerySaved == {Null, V10, V12, V20, V21}
QueryCurrent == {V12, V20}

\* an identifier as written: the parts between its dots, each a string of
\* decimal digits
PartStrings == {<<0>>, <<1>>, <<2>>, <<9>>, <<1, 0>>}
MajorStrings == {<<1>>, <<2>>, <<1, 0>>}

VARIABLES
  versions,          \* options.versions: the step catalog
  builderVersion,    \* options.builderVersion: the registry's current version
  continueOnError,   \* options.continueOnError
  savedVersion,      \* VersionManager.savedVersion
  isUpgrading,       \* UpgradeEngine.isUpgrading
  currentStep,       \* UpgradeEngine.currentStep
  allLogs,           \* UpgradeEngine.allLogs
  failedSteps,       \* UpgradeEngine.failedSteps
  frames,            \* the frames of the runUpgrades() calls still in flight
  returned,          \* history: the frame of the call that returned last,
                     \* NoFrame once a later run has begun
  calls,             \* history: number of calls made into the plugin
                     \* (runUpgrades, runWhatsNew, the load-finished timer)
  idleStorage,       \* history: a storage event came since that return, none
                     \* of the calls made since
  events,            \* events handed to editor.trigger since the last run
                     \* began, and the other calls made on the host
  storedTag,         \* version field of the last outgoing blob
  configured,        \* history: builderVersion as configured at initialisation
  lastOk,            \* history: target of the last step recorded as successful
  lastApplied,       \* history: last successful target, or the tag last loaded
  throwsLeft,        \* listener exceptions the environment may still raise
  query              \* a call of the registry's query API, of a storage hook
                     \* or of the plugin function: its arguments, and once it
                     \* has returned what was called and its value

vars == <<versions, builderVersion, continueOnError, savedVersion, isUpgrading,
          currentStep, allLogs, failedSteps, frames, returned, calls,
          idleStorage, events, storedTag, configured, lastOk, lastApplied,
          throwsLeft, query>>

\* ------------------------------------------------------- VersionManager
Max(a, b) == IF a >= b THEN a ELSE b

RECURSIVE DecimalValue(_)
DecimalValue(digits) ==
  IF digits = <<>> THEN 0
  ELSE 10 * DecimalValue(SubSeq(digits, 1, Len(digits) - 1)) + digits[Len(digits)]

parseIntLeadingDigit(part) ==
  IF part = <<>> THEN NonNumeric ELSE part[1]

\* parseInt(part, 10) of a string of decimal digits; NaN for the empty string
parseInt(part) ==
  IF part = <<>> THEN NonNumeric ELSE DecimalValue(part)

\* version.toString().split('.') with parseInt applied to every part: the
\* form in which the model holds an identifier
Segments(parts) == [i \in 1..Len(parts) |-> parseInt(parts[i])]

parseVersion(version) ==
  [i \in 1..Len(version) |->
     IF version[i] = NonNumeric THEN 0 ELSE version[i]]

defaultCompareVersionsFirstLength(version1, version2) ==
  IF version1 = version2 THEN 0
  ELSE LET v1Parts == parseVersion(version1)
           v2Parts == parseVersion(version2)
           part(p, i) == IF i <= Len(p) THEN p[i] ELSE 0
           diff == {i \in 1..Len(v1Parts) : part(v1Parts, i) # part(v2Parts, i)}
       IN IF diff = {} THEN 0
          ELSE LET k == CHOOSE i \in diff : \A j \in diff : i <= j
               IN IF part(v1Parts, k) < part(v2Parts, k) THEN -1 ELSE 1

defaultCompareVersions(version1, version2) ==
  IF version1 = version2 THEN 0
  ELSE LET v1Parts == parseVersion(version1)
           v2Parts == parseVersion(version2)
           n == Max(Len(v1Parts), Len(v2Parts))
           part(p, i) == IF i <= Len(p) THEN p[i] ELSE 0
           diff == {i \in 1..n : part(v1Parts, i) # part(v2Parts, i)}
       IN IF diff = {} THEN 0
          ELSE LET k == CHOOSE i \in diff : \A j \in diff : i <= j
               IN IF part(v1Parts, k) < part(v2Parts, k) THEN -1 ELSE 1

compareVersions(version1, version2) ==
  defaultCompareVersions(version1, version2)

\* Array.prototype.sort with the comparator of getPendingUpgrades: a stable
\* sort, computed by insertion from the left.
RECURSIVE InsertSorted(_, _)
InsertSorted(sorted, step) ==
  IF sorted = <<>> THEN <<step>>
  ELSE LET last == sorted[Len(sorted)]
       IN IF compareVersions(last.builderVersion, step.builderVersion) <= 0
          THEN Append(sorted, step)
          ELSE Append(InsertSorted(SubSeq(sorted, 1, Len(sorted) - 1), step), last)

SortStepsKeepsCatalogOrder(steps) == steps

RECURSIVE SortSteps(_)
SortSteps(steps) ==
  IF steps = <<>> THEN <<>>
  ELSE InsertSorted(SortSteps(SubSeq(steps, 1, Len(steps) - 1)), steps[Len(steps)])

getPendingUpgradesAboveCurrent(catalog, saved, current) ==
  LET above(step) ==
        saved # Null => compareVersions(saved, step.builderVersion) < 0
  IN SortSteps(SelectSeq(catalog, above))

getPendingUpgradesBelowCurrent(catalog, saved, current) ==
  LET between(step) ==
        /\ saved # Null => compareVersions(saved, step.builderVersion) < 0
        /\ compareVersions(step.builderVersion, current) < 0
  IN SortSteps(SelectSeq(catalog, between))

getPendingUpgradesReversed(catalog, saved, current) ==
  LET between(step) ==
        /\ saved # Null => compareVersions(saved, step.builderVersion) < 0
        /\ compareVersions(step.builderVersion, current) <= 0
      sorted == SortSteps(SelectSeq(catalog, between))
  IN [i \in 1..Len(sorted) |-> sorted[Len(sorted) + 1 - i]]

getPendingUpgrades(catalog, saved, current) ==
  IF saved = Null
  THEN LET upTo(step) == compareVersions(step.builderVersion, current) <= 0
       IN SortSteps(SelectSeq(catalog, upTo))
  ELSE LET between(step) ==
             /\ compareVersions(saved, step.builderVersion) < 0
             /\ compareVersions(step.builderVersion, current) <= 0
       IN SortSteps(SelectSeq(catalog, between))

\* typeof step.whatsNew === 'function' for some step of the catalog
hasWhatsNewSteps(catalog) ==
  \E i \in 1..Len(catalog) : catalog[i].whatsNew

\* getPendingUpgrades(...).filter(step => typeof step.whatsNew === 'function')
getPendingWhatsNew(catalog, saved, current) ==
  LET hasWhatsNew(step) == step.whatsNew
  IN SelectSeq(getPendingUpgrades(catalog, saved, current), hasWhatsNew)

needsUpgradePendingOnly(catalog, saved, current) ==
  IF saved = Null
  THEN Len(getPendingUpgrades(catalog, saved, current)) > 0
  ELSE compareVersions(saved, current) < 0

needsUpgrade(catalog, saved, current) ==
  IF saved = Null
  THEN \/ Len(getPendingUpgrades(catalog, saved, current)) > 0
       \/ hasWhatsNewSteps(catalog)
  ELSE compareVersions(saved, current) < 0

\* ------------------------------------------------------------ data shapes
InfoLog(step) == [level |-> "info", kind |-> "upgraded", step |-> step.builderVersion]
ErrorLog(step) == [level |-> "error", kind |-> "failed", step |-> step.builderVersion]
AddedLog(level, step) == [level |-> level, kind |-> "added", step |-> step.builderVersion]
CatastrophicLog == [level |-> "error", kind |-> "catastrophic", step |-> Null]

Event(name, toVersion, pending, log, hasFailures) ==
  [name |-> name, toVersion |-> toVersion, pending |-> pending,
   log |-> log, hasFailures |-> hasFailures]

UpgradeStartEvent(pendingSteps) ==
  Event("version:upgrade:start", Null,
        [i \in 1..Len(pendingSteps) |-> pendingSteps[i].builderVersion],
        <<>>, FALSE)
StepStartEvent(step) ==
  Event("version:versionUpgrade:start", step.builderVersion, <<>>, <<>>, FALSE)
StepEndEvent(step, log) ==
  Event("version:versionUpgrade:end", step.builderVersion, <<>>, log, FALSE)
UpgradeErrorEvent(step) ==
  Event("version:upgrade:error", step.builderVersion, <<>>, <<>>, FALSE)
UpgradeEndEventNoFailures(upgradedTo, hasFailures) ==
  Event("version:upgrade:end", upgradedTo, <<>>, <<>>, FALSE)

\* {upgradedTo: lastSuccessfulVersion, hasFailures}
UpgradeEndEvent(upgradedTo, hasFailures) ==
  Event("version:upgrade:end", upgradedTo, <<>>, <<>>, hasFailures)

NoResult ==
  [kind |-> "none", success |-> FALSE, logs |-> <<>>, upgradedTo |-> Null,
   failedSteps |-> <<>>, error |-> ""]
Result(kind, success, logs, upgradedTo, failed, error) ==
  [kind |-> kind, success |-> success, logs |-> logs, upgradedTo |-> upgradedTo,
   failedSteps |-> failed, error |-> error]

\* The frame of one runUpgrades() call: its position (pc), its locals
\* (pendingSteps, the loop index idx, lastSuccessfulVersion), the value it
\* returned, and the history of the upgrade actions it invoked (invoked,
\* with the outcome of each in outcomes) and of the call that had returned
\* before it began (after, retryOf, priorOk).
Frame(via, pc, pendingSteps, saved, result) ==
  [via |-> via, pc |-> pc, pendingSteps |-> pendingSteps, idx |-> 0,
   lastSuccessfulVersion |-> saved, savedAtCall |-> saved,
   invoked |-> <<>>, outcomes |-> <<>>, result |-> result,
   retryOf |-> Null, priorOk |-> {}, after |-> "none"]

NoFrame == Frame("none", "done", <<>>, Null, NoResult)

EmitPcs == {"emitRunStart", "emitStepStart", "emitStepEnd", "emitError",
            "emitStepEndError", "emitRunEnd"}
AwaitPcs == {"inAction", "awaitSkip"}

StepOf(fr) == fr.pendingSteps[fr.idx]

\* JavaScript runs to completion: a suspended frame resumes only when no
\* other frame is inside a synchronous section.
MayResume(f) == \A g \in 1..Len(frames) : g # f => frames[g].pc \notin EmitPcs

\* ------------------------------------------------------------------- Init
IsInjective(seq) == \A i, j \in 1..Len(seq) : seq[i] = seq[j] => i = j

\* the catalogs of at most MaxSteps steps with different targets, listed in
\* ascending or in descending order of their targets
Monotone(t, sign) ==
  \A i \in 1..(Len(t) - 1) : compareVersions(t[i], t[i + 1]) = sign

TargetSeqs ==
  UNION {{t \in [1..n -> Targets] :
            IsInjective(t) /\ (Monotone(t, -1) \/ Monotone(t, 1))} :
         n \in 0..MaxSteps}

Catalogs ==
  {[i \in 1..Len(t) |-> [id |-> i, builderVersion |-> t[i]]] : t \in TargetSeqs}

\* no call of the query API has been made
NoQuery == [op |-> "none", args |-> <<>>, value |-> <<>>]

\* the fields the constructors of VersionManager and UpgradeEngine set
Constructed ==
  /\ savedVersion = Null
  /\ isUpgrading = FALSE
  /\ currentStep = NoStep
  /\ allLogs = <<>>
  /\ failedSteps = <<>>
  /\ frames = <<>>
  /\ returned = NoFrame
  /\ calls = 0
  /\ idleStorage = FALSE
  /\ events = <<>>
  /\ storedTag = Null
  /\ lastOk = Null
  /\ lastApplied = Null

InitBase ==
  /\ versions \in Catalogs
  /\ builderVersion \in ConfiguredVersions
  /\ configured = builderVersion
  /\ continueOnError \in BOOLEAN
  /\ Constructed
  /\ query = NoQuery

Init == InitBase /\ throwsLeft = 0

\* ------------------------------------------------- storage hooks, registry
config == <<versions, continueOnError, configured>>
engine == <<isUpgrading, currentStep, allLogs, failedSteps, frames, events>>
callLog == <<returned, calls>>

\* editor.on('storage:load'): the version tag of the loaded blob, when the
\* blob has one, becomes savedVersion.
StorageLoad ==
  \E tag \in LoadedTags :
    /\ IF tag # Null
       THEN savedVersion' = tag /\ lastApplied' = tag
       ELSE UNCHANGED <<savedVersion, lastApplied>>
    /\ idleStorage' = (frames = <<>> \/ idleStorage)
    /\ UNCHANGED <<config, engine, callLog, builderVersion, storedTag, lastOk,
                   throwsLeft, query>>

\* editor.on('storage:start:store'): data[versionKey] = options.builderVersion
StorageStartStore ==
  /\ storedTag' = builderVersion
  /\ idleStorage' = (frames = <<>> \/ idleStorage)
  /\ UNCHANGED <<config, engine, callLog, builderVersion, savedVersion, lastOk,
                 lastApplied, throwsLeft, query>>

updateVersionDropped(version) == builderVersion' = builderVersion

updateVersion(version) == builderVersion' = version

\* --------------------------------------------------- UpgradeEngine, a call
AlreadyRunningUnchecked == FALSE

AlreadyRunning == isUpgrading

FinalizeKeepsRunning ==
  /\ isUpgrading' = isUpgrading
  /\ currentStep' = NoStep

\* the finally block of runUpgrades
Finalize ==
  /\ isUpgrading' = FALSE
  /\ currentStep' = NoStep

SetFrame(f, fr) ==
  /\ frames' = [frames EXCEPT ![f] = fr]
  /\ UNCHANGED <<returned, idleStorage>>

\* the call returns: its frame is gone and its result is with the caller
Return(f, fr) ==
  /\ frames' = SubSeq(frames, 1, f - 1) \o SubSeq(frames, f + 1, Len(frames))
  /\ returned' = fr
  /\ idleStorage' = FALSE

ReturnAtOnce(fr) ==
  /\ returned' = fr
  /\ idleStorage' = FALSE
  /\ UNCHANGED frames

runUpgradesRejectedAfterReset(via) ==
  /\ ReturnAtOnce(
       Frame(via, "done", <<>>, savedVersion,
             Result("rejected", FALSE, <<>>, builderVersion, <<>>,
                    "Upgrade already in progress")))
  /\ allLogs' = <<>>
  /\ failedSteps' = <<>>
  /\ UNCHANGED <<isUpgrading, currentStep, events>>

\* if (this.isUpgrading) return {success: false, ...}
runUpgradesRejected(via) ==
  /\ ReturnAtOnce(
       Frame(via, "done", <<>>, savedVersion,
             Result("rejected", FALSE, <<>>, builderVersion, <<>>,
                    "Upgrade already in progress")))
  /\ UNCHANGED <<isUpgrading, currentStep, allLogs, failedSteps, events>>

runUpgradesNothingPendingAfterReset(via) ==
  /\ ReturnAtOnce(
       Frame(via, "done", <<>>, savedVersion,
             Result("noop", TRUE, <<>>, builderVersion, <<>>, "")))
  /\ allLogs' = <<>>
  /\ failedSteps' = <<>>
  /\ UNCHANGED <<isUpgrading, currentStep, events>>

\* if (pendingSteps.length === 0) return {success: true, ...}
runUpgradesNothingPending(via) ==
  /\ ReturnAtOnce(
       Frame(via, "done", <<>>, savedVersion,
             Result("noop", TRUE, <<>>, builderVersion, <<>>, "")))
  /\ UNCHANGED <<isUpgrading, currentStep, allLogs, failedSteps, events>>

\* history kept in the frame of a retry made on an idle engine after a run
\* that recorded a failure, the saved version being the one that run saw:
\* the target that failed last, and the steps that run had applied
RetryOf(via) ==
  IF /\ via = "retry"
     /\ frames = <<>>
     /\ failedSteps # <<>>
     /\ returned.result.kind \in {"completed", "catastrophic"}
     /\ returned.result.failedSteps = failedSteps
     /\ returned.savedAtCall = savedVersion
  THEN failedSteps[Len(failedSteps)] ELSE Null

PriorOk ==
  {returned.invoked[i].id :
     i \in {j \in 1..Len(returned.invoked) : returned.outcomes[j] = "ok"}}

\* the run state is reset and 'version:upgrade:start' is handed to the bus
runUpgradesStarted(via, pendingSteps) ==
  /\ isUpgrading' = TRUE
  /\ allLogs' = <<>>
  /\ failedSteps' = <<>>
  /\ events' = <<UpgradeStartEvent(pendingSteps)>>
  /\ frames' = Append(frames,
       [Frame(via, "emitRunStart", pendingSteps, savedVersion, NoResult)
          EXCEPT !.retryOf = RetryOf(via), !.priorOk = PriorOk,
                 !.after = returned.result.kind])
  /\ returned' = NoFrame
  /\ idleStorage' = FALSE
  /\ UNCHANGED currentStep

\* runUpgrades() up to its first emit, reading the catalog options.versions
\* holds at the time of the call
runUpgrades(catalog, via) ==
  /\ calls < MaxCalls
  /\ calls' = calls + 1
  /\ IF AlreadyRunning
     THEN runUpgradesRejected(via)
     ELSE LET pendingSteps ==
                getPendingUpgrades(catalog, savedVersion, builderVersion)
          IN IF pendingSteps = <<>>
             THEN runUpgradesNothingPending(via)
             ELSE runUpgradesStarted(via, pendingSteps)
  /\ UNCHANGED <<builderVersion, savedVersion, storedTag, lastOk, lastApplied,
                 continueOnError, configured, throwsLeft, query>>

RunUpgrades ==
  /\ runUpgrades(versions, "run")
  /\ UNCHANGED versions

\* The catalog retryFromFailedStep() hands to runUpgrades().
RetryCatalog ==
  IF failedSteps = <<>> THEN versions
  ELSE LET lastFailedStep == failedSteps[Len(failedSteps)]
           allSteps == getPendingUpgrades(versions, savedVersion, builderVersion)
           found == {i \in 1..Len(allSteps) :
                       allSteps[i].builderVersion = lastFailedStep}
       IN IF found = {} THEN versions
          ELSE LET failedStepIndex == CHOOSE i \in found : \A j \in found : i <= j
               IN SubSeq(allSteps, failedStepIndex, Len(allSteps))

RetryFromFailedStepNotRestored ==
  /\ runUpgrades(RetryCatalog, "retry")
  /\ versions' = RetryCatalog

\* retryFromFailedStep(): options.versions is replaced for the duration of
\* the synchronous part of runUpgrades() and restored afterwards.
RetryFromFailedStep ==
  LET originalSteps == versions
  IN /\ runUpgrades(RetryCatalog, "retry")
     /\ versions' = originalSteps

\* ------------------------------------------- UpgradeEngine, a run's frame
registry == <<builderVersion, savedVersion, storedTag, lastOk, lastApplied>>

\* a listener throws only while the environment has exceptions left
Throws(thr) ==
  /\ thr => throwsLeft > 0
  /\ throwsLeft' = IF thr THEN throwsLeft - 1 ELSE throwsLeft

StopAfterFailureNever == FALSE

\* if (!this.options.continueOnError) break;
StopAfterFailure == ~continueOnError

AfterLoopNoEvent(f, fr) ==
  /\ events' = events
  /\ SetFrame(f, [fr EXCEPT !.pc = "emitRunEnd"])
  /\ UNCHANGED <<isUpgrading, currentStep, allLogs, failedSteps, registry>>

\* after the loop: 'version:upgrade:end' is handed to the bus
AfterLoop(f, fr) ==
  /\ events' = Append(events,
       UpgradeEndEvent(fr.lastSuccessfulVersion, failedSteps # <<>>))
  /\ SetFrame(f, [fr EXCEPT !.pc = "emitRunEnd"])
  /\ UNCHANGED <<isUpgrading, currentStep, allLogs, failedSteps, registry>>

LoopHeadRecomputed(f, fr, i) ==
  LET fresh == getPendingUpgrades(versions, savedVersion, builderVersion)
  IN IF i <= Len(fresh)
     THEN /\ currentStep' = fresh[i]
          /\ events' = Append(events, StepStartEvent(fresh[i]))
          /\ SetFrame(f, [fr EXCEPT !.pendingSteps = fresh, !.idx = i,
                          !.pc = "emitStepStart"])
          /\ UNCHANGED <<isUpgrading, allLogs, failedSteps, registry>>
     ELSE AfterLoop(f, fr)

LoopHeadStepUnset(f, fr, i) ==
  IF i <= Len(fr.pendingSteps)
  THEN /\ currentStep' = currentStep
       /\ events' = Append(events, StepStartEvent(fr.pendingSteps[i]))
       /\ SetFrame(f, [fr EXCEPT !.idx = i, !.pc = "emitStepStart"])
       /\ UNCHANGED <<isUpgrading, allLogs, failedSteps, registry>>
  ELSE AfterLoop(f, fr)

\* head of the for loop with the i-th pending step: currentStep is set and
\* 'version:versionUpgrade:start' is handed to the bus
LoopHead(f, fr, i) ==
  IF i <= Len(fr.pendingSteps)
  THEN /\ currentStep' = fr.pendingSteps[i]
       /\ events' = Append(events, StepStartEvent(fr.pendingSteps[i]))
       /\ SetFrame(f, [fr EXCEPT !.idx = i, !.pc = "emitStepStart"])
       /\ UNCHANGED <<isUpgrading, allLogs, failedSteps, registry>>
  ELSE AfterLoop(f, fr)

CatchStepUnrecorded(f, fr) ==
  /\ allLogs' = Append(allLogs, ErrorLog(StepOf(fr)))
  /\ events' = Append(events, UpgradeErrorEvent(StepOf(fr)))
  /\ SetFrame(f, [fr EXCEPT !.pc = "emitError"])
  /\ UNCHANGED <<failedSteps, isUpgrading, currentStep, registry>>

\* the inner catch: error log, failed-step record, 'version:upgrade:error'
CatchStep(f, fr) ==
  /\ allLogs' = Append(allLogs, ErrorLog(StepOf(fr)))
  /\ failedSteps' = Append(failedSteps, StepOf(fr).builderVersion)
  /\ events' = Append(events, UpgradeErrorEvent(StepOf(fr)))
  /\ SetFrame(f, [fr EXCEPT !.pc = "emitError"])
  /\ UNCHANGED <<isUpgrading, currentStep, registry>>

CatchCatastrophicLogOnly(f, fr) ==
  /\ allLogs' = <<CatastrophicLog>>
  /\ Return(f, [fr EXCEPT !.pc = "done",
                  !.result = Result("catastrophic", FALSE, <<CatastrophicLog>>,
                                    fr.lastSuccessfulVersion, failedSteps,
                                    "Catastrophic upgrade error")])
  /\ Finalize
  /\ UNCHANGED <<failedSteps, events, registry>>

\* the outer catch and the finally block
CatchCatastrophic(f, fr) ==
  /\ allLogs' = Append(allLogs, CatastrophicLog)
  /\ Return(f, [fr EXCEPT !.pc = "done",
                  !.result = Result("catastrophic", FALSE,
                                    Append(allLogs, CatastrophicLog),
                                    fr.lastSuccessfulVersion, failedSteps,
                                    "Catastrophic upgrade error")])
  /\ Finalize
  /\ UNCHANGED <<failedSteps, events, registry>>

ReturnResultSavedVersion(f, fr) ==
  /\ Return(f, [fr EXCEPT !.pc = "done",
                  !.result = Result("completed", TRUE, allLogs,
                                    fr.savedAtCall, failedSteps, "")])
  /\ Finalize
  /\ UNCHANGED <<allLogs, failedSteps, events, registry>>

ReturnResultMarksSaved(f, fr) ==
  /\ Return(f, [fr EXCEPT !.pc = "done",
                  !.result = Result("completed", TRUE, allLogs,
                                    fr.lastSuccessfulVersion, failedSteps, "")])
  /\ Finalize
  /\ savedVersion' = fr.lastSuccessfulVersion
  /\ UNCHANGED <<allLogs, failedSteps, events, builderVersion, storedTag,
                 lastOk, lastApplied>>

\* return {success: true, ...} and the finally block
ReturnResult(f, fr) ==
  /\ Return(f, [fr EXCEPT !.pc = "done",
                  !.result = Result("completed", TRUE, allLogs,
                                    fr.lastSuccessfulVersion, failedSteps, "")])
  /\ Finalize
  /\ UNCHANGED <<allLogs, failedSteps, events, registry>>

\* the listeners of 'version:upgrade:start' return (or one throws)
DeliverRunStart(f, thr) ==
  /\ frames[f].pc = "emitRunStart"
  /\ Throws(thr)
  /\ IF thr THEN CatchCatastrophic(f, frames[f])
            ELSE LoopHead(f, frames[f], 1)
  /\ UNCHANGED <<config, calls, query>>

\* the listeners of 'version:versionUpgrade:start' return; runSingleUpgrade
\* calls step.upgrade(context) and the frame awaits it
DeliverStepStart(f, thr) ==
  /\ frames[f].pc = "emitStepStart"
  /\ Throws(thr)
  /\ IF thr
     THEN CatchStep(f, frames[f])
     ELSE /\ SetFrame(f, [frames[f] EXCEPT
                 !.pc = "inAction",
                 !.invoked = Append(@, StepOf(frames[f])),
                 !.outcomes = Append(@, "pending")])
          /\ UNCHANGED <<isUpgrading, currentStep, allLogs, failedSteps,
                         events, registry>>
  /\ UNCHANGED <<config, calls, query>>

Settled(fr, outcome) ==
  [fr EXCEPT !.outcomes = [@ EXCEPT ![Len(@)] = outcome]]

\* step.upgrade(context) returns or resolves; runSingleUpgrade awaits
\* editor.UndoManager.skip
ActionResolves(f) ==
  /\ frames[f].pc = "inAction"
  /\ MayResume(f)
  /\ SetFrame(f, [Settled(frames[f], "ok") EXCEPT !.pc = "awaitSkip"])
  /\ UNCHANGED <<isUpgrading, currentStep, allLogs, failedSteps, events,
                 registry, config, calls, throwsLeft, query>>

\* step.upgrade(context) throws or rejects: the inner catch runs
ActionFails(f) ==
  /\ frames[f].pc = "inAction"
  /\ MayResume(f)
  /\ CatchStep(f, Settled(frames[f], "fail"))
  /\ UNCHANGED <<config, calls, throwsLeft, query>>

\* UndoManager.skip resolves: runSingleUpgrade pushes the info log and
\* returns it, the registry's version is updated and
\* 'version:versionUpgrade:end' is handed to the bus
SkipResolves(f) ==
  LET fr == frames[f]
      step == StepOf(fr)
  IN /\ fr.pc = "awaitSkip"
     /\ MayResume(f)
     /\ allLogs' = Append(allLogs, InfoLog(step))
     /\ updateVersion(step.builderVersion)
     /\ lastOk' = step.builderVersion
     /\ lastApplied' = step.builderVersion
     /\ events' = Append(events, StepEndEvent(step, <<InfoLog(step)>>))
     /\ SetFrame(f, [fr EXCEPT !.pc = "emitStepEnd",
                     !.lastSuccessfulVersion = step.builderVersion])
     /\ UNCHANGED <<isUpgrading, currentStep, failedSteps, savedVersion,
                    storedTag, config, calls, throwsLeft, query>>

\* the listeners of the successful step's 'version:versionUpgrade:end' return
DeliverStepEnd(f, thr) ==
  /\ frames[f].pc = "emitStepEnd"
  /\ Throws(thr)
  /\ IF thr THEN CatchStep(f, frames[f])
            ELSE LoopHead(f, frames[f], frames[f].idx + 1)
  /\ UNCHANGED <<config, calls, query>>

\* the listeners of 'version:upgrade:error' return; the failed step's
\* 'version:versionUpgrade:end' is handed to the bus
DeliverError(f, thr) ==
  /\ frames[f].pc = "emitError"
  /\ Throws(thr)
  /\ IF thr
     THEN CatchCatastrophic(f, frames[f])
     ELSE /\ events' = Append(events,
               StepEndEvent(StepOf(frames[f]), <<ErrorLog(StepOf(frames[f]))>>))
          /\ SetFrame(f, [frames[f] EXCEPT !.pc = "emitStepEndError"])
          /\ UNCHANGED <<isUpgrading, currentStep, allLogs, failedSteps, registry>>
  /\ UNCHANGED <<config, calls, query>>

\* the listeners of the failed step's 'version:versionUpgrade:end' return;
\* the loop stops or goes on
DeliverStepEndError(f, thr) ==
  /\ frames[f].pc = "emitStepEndError"
  /\ Throws(thr)
  /\ IF thr THEN CatchCatastrophic(f, frames[f])
     ELSE IF StopAfterFailure THEN AfterLoop(f, frames[f])
     ELSE LoopHead(f, frames[f], frames[f].idx + 1)
  /\ UNCHANGED <<config, calls, query>>

\* the listeners of 'version:upgrade:end' return; runUpgrades returns
DeliverRunEnd(f, thr) ==
  /\ frames[f].pc = "emitRunEnd"
  /\ Throws(thr)
  /\ IF thr THEN CatchCatastrophic(f, frames[f])
            ELSE ReturnResult(f, frames[f])
  /\ UNCHANGED <<config, calls, query>>

\* ----------------------------------------------------------- specification
FrameIds == 1..Len(frames)

Deliver(thr) ==
  \E f \in FrameIds :
    \/ DeliverRunStart(f, thr)
    \/ DeliverStepStart(f, thr)
    \/ DeliverStepEnd(f, thr)
    \/ DeliverError(f, thr)
    \/ DeliverStepEndError(f, thr)
    \/ DeliverRunEnd(f, thr)

EngineNext ==
  \/ StorageLoad
  \/ RunUpgrades
  \/ RetryFromFailedStep
  \/ Deliver(FALSE)
  \/ \E f \in FrameIds : ActionResolves(f)
  \/ \E f \in FrameIds : ActionFails(f)
  \/ \E f \in FrameIds : SkipResolves(f)

Next == EngineNext \/ StorageStartStore

Spec == Init /\ [][Next]_vars

\* The engine in an environment whose listeners may throw.  The store hook
\* is left out of it: it reads the registry and writes only the blob.
InitThrowing == InitBase /\ throwsLeft = MaxThrows

NextThrowing == EngineNext \/ Deliver(TRUE)

SpecThrowing == InitThrowing /\ [][NextThrowing]_vars

\* The registry's query API on a catalog of at most MaxCatalog steps, listed
\* in any order, of which at most one defines whatsNew; the arguments of the
\* call are drawn at the start.
QueryCatalogs ==
  UNION {{[i \in 1..n |-> [id |-> i, builderVersion |-> t[i], whatsNew |-> i = w]] :
            t \in [1..n -> QueryTargets], w \in 0..n} :
         n \in 0..MaxCatalog}

InitQuery ==
  /\ versions \in QueryCatalogs
  /\ builderVersion \in ConfiguredVersions
  /\ configured = builderVersion
  /\ continueOnError = TRUE
  /\ Constructed
  /\ throwsLeft = 0
  /\ query \in {[op |-> "none", args |-> <<saved, current>>, value |-> <<>>] :
                  saved \in QuerySaved, current \in QueryCurrent}

\* the call returns: the method called and its value are with the caller
Answer(op, value) == [query EXCEPT !.op = op, !.value = value]

host == <<config, engine, callLog, registry, idleStorage, throwsLeft>>

GetPendingUpgrades ==
  /\ query.op = "none"
  /\ query' = Answer("getPendingUpgrades",
                     getPendingUpgrades(versions, query.args[1], query.args[2]))
  /\ UNCHANGED host

NeedsUpgrade ==
  /\ query.op = "none"
  /\ query' = Answer("needsUpgrade",
                     needsUpgrade(versions, query.args[1], query.args[2]))
  /\ UNCHANGED host

NextQuery == GetPendingUpgrades \/ NeedsUpgrade

SpecQuery == InitQuery /\ [][NextQuery]_vars

\* The comparator on two identifiers as written, of at most MaxSegments
\* parts each: a major part followed by any parts.
Identifiers ==
  UNION {{<<major>> \o rest : major \in MajorStrings,
                              rest \in [1..n -> PartStrings]} :
         n \in 0..(MaxSegments - 1)}

InitCompare ==
  /\ versions = <<>>
  /\ builderVersion \in ConfiguredVersions
  /\ configured = builderVersion
  /\ continueOnError = TRUE
  /\ Constructed
  /\ throwsLeft = 0
  /\ query \in {[op |-> "none", args |-> <<a, b>>, value |-> <<>>] :
                  a \in Identifiers, b \in Identifiers}

CompareVersions ==
  /\ query.op = "none"
  /\ query' = Answer("compareVersions",
                     compareVersions(Segments(query.args[1]),
                                     Segments(query.args[2])))
  /\ UNCHANGED host

NextCompare == CompareVersions

SpecCompare == InitCompare /\ [][NextCompare]_vars

\* ------------------------------------------- the upgrade context's addLog
AddLogLevels == {"info", "error"}

addLogUnshift(logs, log) == <<log>> \o logs

\* addLog: (level, message) => { ...; this.allLogs.push(log); return log; }
addLog(logs, log) == Append(logs, log)

AddedBy(step) ==
  {k \in 1..Len(allLogs) :
     allLogs[k].kind = "added" /\ allLogs[k].step = step.builderVersion}

\* the upgrade action in flight calls context.addLog(level, message)
AddLog(f) ==
  /\ frames[f].pc = "inAction"
  /\ MayResume(f)
  /\ Cardinality(AddedBy(StepOf(frames[f]))) < MaxAddLogs
  /\ \E level \in AddLogLevels :
       allLogs' = addLog(allLogs, AddedLog(level, StepOf(frames[f])))
  /\ UNCHANGED <<isUpgrading, currentStep, failedSteps, frames, events,
                 callLog, registry, config, idleStorage, throwsLeft, query>>

NextContext ==
  \/ RunUpgrades
  \/ Deliver(FALSE)
  \/ \E f \in FrameIds : AddLog(f)
  \/ \E f \in FrameIds : ActionResolves(f)
  \/ \E f \in FrameIds : ActionFails(f)
  \/ \E f \in FrameIds : SkipResolves(f)

SpecContext == Init /\ [][NextContext]_vars

\* ------------------------------------------------ UpgradeEngine.runWhatsNew
\* catalogs whose steps may carry a whatsNew action
AnnouncingCatalogs ==
  UNION {{[i \in 1..Len(c) |->
             [id |-> i, builderVersion |-> c[i].builderVersion, whatsNew |-> w[i]]] :
            w \in [1..Len(c) -> BOOLEAN]} : c \in Catalogs}

InitWhatsNew ==
  /\ versions \in AnnouncingCatalogs
  /\ builderVersion \in ConfiguredVersions
  /\ configured = builderVersion
  /\ continueOnError \in BOOLEAN
  /\ Constructed
  /\ query = NoQuery
  /\ throwsLeft = 0

\* the promise of runWhatsNew() resolves with undefined
Resolved == [NoResult EXCEPT !.kind = "resolved"]

\* await step.whatsNew(context) for the i-th announcement step
InvokeWhatsNew(fr, i) ==
  [fr EXCEPT !.idx = i, !.pc = "inWhatsNew",
             !.invoked = Append(@, fr.pendingSteps[i]),
             !.outcomes = Append(@, "pending")]

\* runWhatsNew() up to its first await: the announcement steps pending
\* between the saved version and options.builderVersion are computed and the
\* first whatsNew action is called
RunWhatsNew ==
  /\ calls < MaxCalls
  /\ calls' = calls + 1
  /\ LET whatsNewSteps ==
           getPendingWhatsNew(versions, savedVersion, builderVersion)
         fr == [Frame("whatsNew", "done", whatsNewSteps, savedVersion, Resolved)
                  EXCEPT !.after = returned.result.kind]
     IN IF whatsNewSteps = <<>>
        THEN ReturnAtOnce(fr)
        ELSE /\ frames' = Append(frames, InvokeWhatsNew(fr, 1))
             /\ idleStorage' = FALSE
             /\ UNCHANGED returned
  /\ UNCHANGED <<isUpgrading, currentStep, allLogs, failedSteps, events,
                 registry, config, throwsLeft, query>>

WhatsNewSettledStopsOnFailure(f, outcome) ==
  LET fr == Settled(frames[f], outcome)
  IN IF fr.idx < Len(fr.pendingSteps) /\ outcome = "ok"
     THEN SetFrame(f, InvokeWhatsNew(fr, fr.idx + 1))
     ELSE Return(f, [fr EXCEPT !.pc = "done"])

\* the body of the for loop after the await, then the next iteration or the
\* end of runWhatsNew
WhatsNewSettled(f, outcome) ==
  LET fr == Settled(frames[f], outcome)
  IN IF fr.idx < Len(fr.pendingSteps)
     THEN SetFrame(f, InvokeWhatsNew(fr, fr.idx + 1))
     ELSE Return(f, [fr EXCEPT !.pc = "done"])

\* step.whatsNew(context) returns or resolves
WhatsNewResolves(f) ==
  /\ frames[f].pc = "inWhatsNew"
  /\ MayResume(f)
  /\ WhatsNewSettled(f, "ok")
  /\ UNCHANGED <<isUpgrading, currentStep, allLogs, failedSteps, events,
                 registry, config, calls, throwsLeft, query>>

\* step.whatsNew(context) throws or rejects: the catch warns on the console
WhatsNewFails(f) ==
  /\ frames[f].pc = "inWhatsNew"
  /\ MayResume(f)
  /\ WhatsNewSettled(f, "fail")
  /\ UNCHANGED <<isUpgrading, currentStep, allLogs, failedSteps, events,
                 registry, config, calls, throwsLeft, query>>

\* the document is loaded before the engine is used
NextWhatsNew ==
  \/ (calls = 0 /\ StorageLoad)
  \/ RunUpgrades
  \/ Deliver(FALSE)
  \/ \E f \in FrameIds : ActionResolves(f)
  \/ \E f \in FrameIds : ActionFails(f)
  \/ \E f \in FrameIds : SkipResolves(f)
  \/ RunWhatsNew
  \/ \E f \in FrameIds : WhatsNewResolves(f)
  \/ \E f \in FrameIds : WhatsNewFails(f)

SpecWhatsNew == InitWhatsNew /\ [][NextWhatsNew]_vars

\* ------------------------------------------ storage hooks, the blob in hand
\* A blob is a function from its keys to their values; a key the blob does
\* not have maps to Null.
VersionKey == "builderVersion"
ProjectKeys == {"gjs-html", "gjs-css"}
Contents == {"<div>Content</div>", ".style { margin: 0; }"}
BlobTags == {Null, V10, V11}

Blobs ==
  {[k \in ProjectKeys \cup {VersionKey} |->
      IF k = VersionKey THEN tag ELSE content[k]] :
     tag \in BlobTags, content \in [ProjectKeys -> Contents]}

InitStorage ==
  /\ versions = <<>>
  /\ builderVersion \in Targets
  /\ configured \in ConfiguredVersions
  /\ continueOnError = TRUE
  /\ Constructed
  /\ query = NoQuery
  /\ throwsLeft = 0

StoreBlobVersionOnly(data, version) ==
  [k \in DOMAIN data |-> IF k = VersionKey THEN version ELSE Null]

\* data[this.versionKey] = this.options.builderVersion
StoreBlob(data, version) == [data EXCEPT ![VersionKey] = version]

\* editor.on('storage:start:store') with the outgoing blob: query holds the
\* blob as handed over and as the hook leaves it
StoreHook ==
  \E data \in Blobs :
    /\ query' = [op |-> "storage:start:store", args |-> <<data>>,
                 value |-> StoreBlob(data, builderVersion)]
    /\ storedTag' = StoreBlob(data, builderVersion)[VersionKey]
    /\ idleStorage' = (frames = <<>> \/ idleStorage)
    /\ UNCHANGED <<config, engine, callLog, builderVersion, savedVersion,
                   lastOk, lastApplied, throwsLeft>>

\* if (data && data[this.versionKey]) this.savedVersion = data[this.versionKey]
LoadBlob(data) ==
  IF data # Null /\ data[VersionKey] # Null THEN data[VersionKey]
  ELSE savedVersion

\* editor.on('storage:load') with the loaded data, a blob or null: query
\* holds the data and what getSavedVersion() returns afterwards
LoadHook ==
  \E data \in Blobs \cup {Null} :
    /\ savedVersion' = LoadBlob(data)
    /\ lastApplied' = IF data # Null /\ data[VersionKey] # Null
                      THEN data[VersionKey] ELSE lastApplied
    /\ query' = [op |-> "storage:load", args |-> <<data>>,
                 value |-> LoadBlob(data)]
    /\ idleStorage' = (frames = <<>> \/ idleStorage)
    /\ UNCHANGED <<config, engine, callLog, builderVersion, storedTag, lastOk,
                   throwsLeft>>

NextStorage == StoreHook \/ LoadHook

SpecStorage == InitStorage /\ [][NextStorage]_vars

\* ---------------------------------------------------- plugin initialisation
\* the defaults the plugin function spreads opts over; builderVersion ''
\* is Null, a versions value is given with whether it is an array, and
\* onFirstRun is given as whether it is a function
Defaults ==
  [builderVersion |-> Null, versions |-> [isArray |-> TRUE, steps |-> <<>>],
   continueOnError |-> TRUE, onFirstRun |-> FALSE]

\* a catalog entry as configured: its target (Null when missing), whether
\* its upgrade and its whatsNew are functions
OptionEntries ==
  {[builderVersion |-> V11, upgrade |-> TRUE, whatsNew |-> FALSE],
   [builderVersion |-> V20, upgrade |-> TRUE, whatsNew |-> TRUE],
   [builderVersion |-> Null, upgrade |-> TRUE, whatsNew |-> FALSE],
   [builderVersion |-> V20, upgrade |-> FALSE, whatsNew |-> TRUE]}

OptionVersions ==
  {[isArray |-> FALSE, steps |-> <<>>]}
    \cup {[isArray |-> TRUE, steps |-> c] :
            c \in UNION {[1..n -> OptionEntries] : n \in 0..MaxSteps}}

OptionCurrent == {Null, V10, V20}

\* the opts handed to the plugin function, with or without continueOnError
Opts ==
  LET given == [builderVersion : OptionCurrent, versions : OptionVersions,
                onFirstRun : BOOLEAN]
  IN given \cup
       {[k \in DOMAIN g \cup {"continueOnError"} |->
           IF k = "continueOnError" THEN b ELSE g[k]] :
          g \in given, b \in BOOLEAN}

\* const options = {...defaults, ...opts}
Options(opts) ==
  [k \in DOMAIN Defaults |-> IF k \in DOMAIN opts THEN opts[k] ELSE Defaults[k]]

ValidOptionsIgnoringSteps(options) ==
  /\ options.builderVersion # Null
  /\ options.versions.isArray

\* the three validations that make the plugin function return early
ValidOptions(options) ==
  /\ options.builderVersion # Null
  /\ options.versions.isArray
  /\ \A i \in 1..Len(options.versions.steps) :
       /\ options.versions.steps[i].builderVersion # Null
       /\ options.versions.steps[i].upgrade

\* options.versions as the registry and the engine read it, a step being
\* identified by its place in the configured list
StepsOf(entries) ==
  [i \in 1..Len(entries) |->
     [id |-> i, builderVersion |-> entries[i].builderVersion,
      whatsNew |-> entries[i].whatsNew]]

\* the object the plugin function returns
Api == <<"versionManager", "upgradeEngine", "modalUI", "eventSystem">>

\* the plugin function has not been called: options are the defaults, no
\* component exists and no hook is registered
InitPlugin ==
  /\ versions = Defaults.versions.steps
  /\ builderVersion = Defaults.builderVersion
  /\ configured = Defaults.builderVersion
  /\ continueOnError = Defaults.continueOnError
  /\ Constructed
  /\ throwsLeft = 0
  /\ query \in {[op |-> "none", args |-> <<opts>>, value |-> <<>>] : opts \in Opts}

\* the plugin function: the options are validated; when they are valid the
\* components are constructed, the hooks registered and the API returned
Plugin ==
  /\ query.op = "none"
  /\ LET options == Options(query.args[1])
     IN IF ValidOptions(options)
        THEN /\ versions' = StepsOf(options.versions.steps)
             /\ builderVersion' = options.builderVersion
             /\ configured' = options.builderVersion
             /\ continueOnError' = options.continueOnError
             /\ query' = Answer("plugin", Api)
        ELSE /\ query' = Answer("plugin", Null)
             /\ UNCHANGED <<versions, builderVersion, configured, continueOnError>>
  /\ UNCHANGED <<engine, callLog, savedVersion, storedTag, lastOk, lastApplied,
                 idleStorage, throwsLeft>>

\* the hooks and the API exist once the plugin function has returned the API
Started == query.op = "plugin" /\ query.value = Api

HostCall(name) == [name |-> name]

OutdatedEvent(saved, current) ==
  [name |-> "version:outdated", savedVersion |-> saved, currentVersion |-> current]

LoadFinishedCallsWhenSaved(onFirstRun, saved, current) ==
  IF saved = Null
  THEN IF onFirstRun THEN <<HostCall("onFirstRun")>> ELSE <<>>
  ELSE <<OutdatedEvent(saved, current), HostCall("modalUI.show")>>

\* what the timer callback of the storage:end:load handler calls
LoadFinishedCalls(onFirstRun, saved, current) ==
  IF saved = Null
  THEN IF onFirstRun THEN <<HostCall("onFirstRun")>> ELSE <<>>
  ELSE IF needsUpgrade(versions, saved, current)
       THEN <<OutdatedEvent(saved, current), HostCall("modalUI.show")>>
       ELSE <<>>

\* the timer set by the handler of 'storage:end:load' fires
LoadFinished ==
  /\ calls < MaxCalls
  /\ calls' = calls + 1
  /\ events' = events \o LoadFinishedCalls(Options(query.args[1]).onFirstRun,
                                           savedVersion, builderVersion)
  /\ UNCHANGED <<isUpgrading, currentStep, allLogs, failedSteps, frames,
                 returned, idleStorage, registry, config, throwsLeft, query>>

NextPlugin ==
  \/ Plugin
  \/ (Started /\ StorageLoad)
  \/ (Started /\ LoadFinished)
  \/ (Started /\ RunUpgrades)
  \/ (Started /\ Deliver(FALSE))
  \/ (Started /\ \E f \in FrameIds : ActionResolves(f))
  \/ (Started /\ \E f \in FrameIds : ActionFails(f))
  \/ (Started /\ \E f \in FrameIds : SkipResolves(f))

SpecPlugin == InitPlugin /\ [][NextPlugin]_vars

\* --------------------------------- the registry's saved version, all entries
\* every operation of the registry and the engine, on catalogs listed in
\* ascending order whose steps all carry a whatsNew action
AnnouncedCatalogs ==
  {[i \in 1..Len(t) |-> [id |-> i, builderVersion |-> t[i], whatsNew |-> TRUE]] :
     t \in {u \in TargetSeqs : Monotone(u, -1)}}

InitSaved ==
  /\ versions \in AnnouncedCatalogs
  /\ builderVersion \in ConfiguredVersions
  /\ configured = builderVersion
  /\ continueOnError \in BOOLEAN
  /\ Constructed
  /\ query = NoQuery
  /\ throwsLeft = 0

\* runWhatsNew() is called once a run has returned, as the modal does
NextSaved ==
  \/ StorageLoad
  \/ StorageStartStore
  \/ RunUpgrades
  \/ RetryFromFailedStep
  \/ (frames = <<>> /\ returned.result.kind \in {"completed", "catastrophic"}
        /\ RunWhatsNew)
  \/ Deliver(FALSE)
  \/ \E f \in FrameIds : ActionResolves(f)
  \/ \E f \in FrameIds : ActionFails(f)
  \/ \E f \in FrameIds : SkipResolves(f)
  \/ \E f \in FrameIds : WhatsNewResolves(f)
  \/ \E f \in FrameIds : WhatsNewFails(f)

SpecSaved == InitSaved /\ [][NextSaved]_vars

(***************************************************************************)
(* Runs under fair scheduling.  A frame of runUpgrades is suspended only   *)
(* at an await: on the promise of the step's upgrade action and on the     *)
(* value returned by the host's UndoManager.skip.  Listeners run inside    *)
(* emit, synchronously, so a frame that is delivering an event goes on;    *)
(* the continuation after the await of skip is a job of the microtask      *)
(* queue, so it runs; and every action that was invoked settles, by        *)
(* resolving or by rejecting.                                              *)
(***************************************************************************)
NextLive ==
  \/ RunUpgrades
  \/ RetryFromFailedStep
  \/ Deliver(FALSE)
  \/ \E f \in FrameIds : ActionResolves(f)
  \/ \E f \in FrameIds : ActionFails(f)
  \/ \E f \in FrameIds : SkipResolves(f)

ActionSettles == \E f \in FrameIds : ActionResolves(f) \/ ActionFails(f)

SpecLive ==
  /\ Init
  /\ [][NextLive]_vars
  /\ WF_vars(Deliver(FALSE))
  /\ WF_vars(ActionSettles)
  /\ WF_vars(\E f \in FrameIds : SkipResolves(f))

(***************************************************************************)
(* Catalogs with a step above the configured version: the application was  *)
(* configured as 2.0 and the catalog already lists the step to 2.1.        *)
(***************************************************************************)
CeilingTargets == {V11, V20, V21}

CeilingCatalogs ==
  {[i \in 1..Len(t) |-> [id |-> i, builderVersion |-> t[i]]] :
     t \in UNION {{u \in [1..n -> CeilingTargets] : Monotone(u, -1)} :
                  n \in 0..MaxSteps}}

InitCeiling ==
  /\ versions \in CeilingCatalogs
  /\ builderVersion \in ConfiguredVersions
  /\ configured = builderVersion
  /\ continueOnError \in BOOLEAN
  /\ Constructed
  /\ query = NoQuery
  /\ throwsLeft = 0

SpecCeiling == InitCeiling /\ [][NextLive]_vars

\* ================================================================= claims
AllFrames == {frames[f] : f \in FrameIds} \cup {returned}

RunKinds == {"completed", "catastrophic"}

Indices(fr, outcome) == {i \in 1..Len(fr.outcomes) : fr.outcomes[i] = outcome}

\* the target of the last step of the frame whose action succeeded, the
\* version saved when the call was made if none did
LastOkTarget(fr) ==
  IF Indices(fr, "ok") = {} THEN fr.savedAtCall
  ELSE LET k == CHOOSE i \in Indices(fr, "ok") : \A j \in Indices(fr, "ok") : j <= i
       IN fr.invoked[k].builderVersion

\* the targets of the steps of the frame whose action failed, in the order
\* the actions were invoked
FailedTargets(fr) ==
  LET failed(i) == fr.outcomes[i] = "fail"
      idxs == SelectSeq([i \in 1..Len(fr.invoked) |-> i], failed)
  IN [k \in 1..Len(idxs) |-> fr.invoked[idxs[k]].builderVersion]

\* ---- C1: within one run the upgrade actions are invoked in strictly
\* ascending target-version order, and an action is started only once the
\* action invoked before it has settled.
C1_SequentialAscending ==
  \A fr \in AllFrames :
    /\ \A i, j \in 1..Len(fr.invoked) :
         i < j => compareVersions(fr.invoked[i].builderVersion,
                                  fr.invoked[j].builderVersion) < 0
    /\ \A i \in 1..(Len(fr.outcomes) - 1) : fr.outcomes[i] # "pending"

\* the second action of a run is in flight, the catalog lists its steps in
\* descending order
C1_Witness ==
  /\ Len(versions) = 2
  /\ compareVersions(versions[1].builderVersion, versions[2].builderVersion) > 0
  /\ \E f \in FrameIds :
       /\ frames[f].pc = "inAction"
       /\ Len(frames[f].invoked) = 2
       /\ frames[f].outcomes[1] \in {"ok", "fail"}

\* ---- C2: whatever runUpgrades() and retryFromFailedStep() calls are made,
\* at most one upgrade action is in flight, and no step is started twice by
\* the runs in flight.
C2_OneActionInFlight ==
  /\ Cardinality({f \in FrameIds : frames[f].pc = "inAction"}) <= 1
  /\ \A f, g \in FrameIds :
       \A i \in 1..Len(frames[f].invoked), j \in 1..Len(frames[g].invoked) :
         frames[f].invoked[i].id = frames[g].invoked[j].id => f = g /\ i = j

\* retryFromFailedStep() was called while the second action of a run was in
\* flight, after the first had failed
C2_Witness ==
  /\ returned.via = "retry"
  /\ returned.result.kind = "rejected"
  /\ failedSteps # <<>>
  /\ \E f \in FrameIds :
       frames[f].pc = "inAction" /\ Len(frames[f].invoked) = 2

\* ---- C3: a call made while a run is in flight returns a failure-to-start
\* result, starts nothing, emits nothing, and leaves isUpgrading, currentStep,
\* the logs and the failed-step list as they were.
C3_RejectedCallChangesNothing ==
  [][(frames # <<>> /\ calls' = calls + 1) =>
       /\ returned'.result.success = FALSE
       /\ returned'.result.error # ""
       /\ frames' = frames
       /\ events' = events
       /\ isUpgrading' = isUpgrading
       /\ currentStep' = currentStep
       /\ allLogs' = allLogs
       /\ failedSteps' = failedSteps]_vars

\* runUpgrades() was rejected while a run holding logs and a failed step is
\* in flight
C3_Witness ==
  /\ returned.via = "run"
  /\ returned.result.kind = "rejected"
  /\ frames # <<>>
  /\ allLogs # <<>>
  /\ failedSteps # <<>>
  /\ currentStep # NoStep

\* ---- C4: with continueOnError disabled, once the action of a step has
\* failed no later action is invoked in that run, the result's failed-step
\* list is exactly that step's target, and upgradedTo is the target of the
\* last step that succeeded before it (the version saved before the run if
\* none did).
C4_HaltOnFirstFailure ==
  ~continueOnError =>
    \A fr \in AllFrames :
      \A i \in Indices(fr, "fail") :
        /\ i = Len(fr.invoked)
        /\ fr.pc = "done" =>
             /\ fr.result.failedSteps = <<fr.invoked[i].builderVersion>>
             /\ fr.result.upgradedTo = LastOkTarget(fr)

\* a run of two pending steps returned after its first action failed
C4_Witness ==
  /\ ~continueOnError
  /\ returned.result.kind = "completed"
  /\ Len(returned.pendingSteps) = 2
  /\ returned.outcomes = <<"fail">>
  /\ returned.savedAtCall # Null
  /\ returned.result.upgradedTo = returned.savedAtCall

C6_SuccessReflectsFailures ==
  (returned.result.kind \in RunKinds /\ Indices(returned, "fail") # {})
    => returned.result.success = FALSE

\* ---- C7: right after a run in which every pending step succeeded, with no
\* storage event in between, runUpgrades() finds nothing pending: it invokes
\* no action, emits no event and returns a no-op success.
FullySucceeded(fr) ==
  /\ fr.result.kind = "completed"
  /\ fr.pendingSteps # <<>>
  /\ fr.invoked = fr.pendingSteps
  /\ \A i \in 1..Len(fr.outcomes) : fr.outcomes[i] = "ok"

C7_SecondRunIsNoop ==
  [][(frames = <<>> /\ ~idleStorage /\ FullySucceeded(returned) /\ RunUpgrades) =>
       /\ frames' = <<>>
       /\ events' = events
       /\ returned'.result.kind = "noop"
       /\ returned'.result.success]_vars

\* ---- C8: a retry made on an idle engine after a run that recorded a failed
\* step starts at the step that failed last, and invokes no step ordered
\* before it that the earlier run had applied.
C8_RetryResumesAtFailedStep ==
  \A fr \in AllFrames :
    (fr.via = "retry" /\ fr.retryOf # Null /\ fr.pendingSteps # <<>>) =>
      /\ fr.pendingSteps[1].builderVersion = fr.retryOf
      /\ \A i \in 1..Len(fr.invoked) :
           ~(/\ fr.invoked[i].id \in fr.priorOk
             /\ compareVersions(fr.invoked[i].builderVersion, fr.retryOf) < 0)

\* ---- C9 as claimed: for a document loaded with a version tag, the tag the
\* store hook writes is the target of the last step that succeeded, or the
\* loaded version when no step has succeeded since the load.
C9_StoreWritesLastApplied ==
  [][(StorageStartStore /\ savedVersion # Null) => storedTag' = lastApplied]_vars

\* ---- C9 as amended: the tag the store hook writes is the registry's
\* current version: the target of the last step recorded as successful since
\* initialisation, or the configured application version when there is none,
\* whatever version was loaded.
C9_StoreWritesCurrentVersion ==
  [][StorageStartStore =>
       storedTag' = (IF lastOk # Null THEN lastOk ELSE configured)]_vars

\* the blob of a loaded document was stamped with the target of a successful
\* step while the next action of the run was in flight
C9_Witness ==
  /\ savedVersion # Null
  /\ lastOk # Null
  /\ storedTag = lastOk
  /\ storedTag # configured
  /\ \E f \in FrameIds : frames[f].pc = "inAction"

\* ---- C10: once a run has returned (success, partial failure, early stop or
\* catastrophic failure) isUpgrading is false and currentStep is null, and a
\* call made on the idle engine is not rejected by the re-entrancy guard.
C10_RunStateCleared ==
  [][/\ frames' = <<>> => (isUpgrading' = FALSE /\ currentStep' = NoStep)
     /\ (frames = <<>> /\ calls' = calls + 1) =>
          (frames' # <<>> \/ returned'.result.kind = "noop")]_vars

\* a run was accepted after a run that failed catastrophically
C10_Witness ==
  /\ calls = 2
  /\ isUpgrading
  /\ \E f \in FrameIds :
       frames[f].after = "catastrophic" /\ frames[f].pc = "inAction"

\* ---- C11: when an error escapes the per-step handling (a listener throws
\* while the run-started, the run-level-error, a failed step's step-ended or
\* the run-ended notification is delivered) the call still returns: success
\* is false with an error message, the logs are those accumulated so far
\* followed by one catastrophic entry, and upgradedTo and the failed-step list
\* carry the progress made before the error.
C11_CatastrophicResult ==
  [][(returned.result.kind # "catastrophic"
        /\ returned'.result.kind = "catastrophic") =>
       /\ frames' = <<>>
       /\ returned'.result.success = FALSE
       /\ returned'.result.error # ""
       /\ returned'.result.logs = Append(allLogs, CatastrophicLog)
       /\ allLogs' = returned'.result.logs
       /\ returned'.result.upgradedTo = LastOkTarget(returned')
       /\ returned'.result.failedSteps = failedSteps
       /\ \A i \in 1..Len(FailedTargets(returned')) :
            \E j \in 1..Len(failedSteps) :
              failedSteps[j] = FailedTargets(returned')[i]]_vars

\* a listener threw on the run-level-error notification of the second step,
\* after the first step had succeeded
C11_Witness ==
  /\ returned.result.kind = "catastrophic"
  /\ returned.outcomes = <<"ok", "fail">>
  /\ Len(returned.result.logs) = 3
  /\ returned.result.upgradedTo = returned.invoked[1].builderVersion
  /\ returned.result.failedSteps = <<returned.invoked[2].builderVersion>>

\* ---- C12: getPendingUpgrades(saved, current) returns exactly the catalog
\* steps whose target compares <= current and, when a saved version is given,
\* above saved: each such step once, and no other step; saved = current
\* gives the empty list.
IsPending(step, saved, current) ==
  /\ saved # Null => compareVersions(saved, step.builderVersion) < 0
  /\ compareVersions(step.builderVersion, current) <= 0

C12_PendingExactly ==
  query.op = "getPendingUpgrades" =>
    LET saved == query.args[1]
        current == query.args[2]
        pending == {i \in 1..Len(versions) : IsPending(versions[i], saved, current)}
    IN /\ \A i \in 1..Len(versions) :
            i \in pending <=>
              \E j \in 1..Len(query.value) : query.value[j] = versions[i]
       /\ \A j \in 1..Len(query.value) :
            \E i \in pending : query.value[j] = versions[i]
       /\ Len(query.value) = Cardinality(pending)
       /\ (saved # Null /\ compareVersions(saved, current) = 0) =>
            query.value = <<>>

\* one step of three is pending: one lies above current, one is not above
\* the saved version
C12_Witness ==
  /\ query.op = "getPendingUpgrades"
  /\ query.args[1] # Null
  /\ Len(versions) = 3
  /\ Len(query.value) = 1
  /\ \E i \in 1..Len(versions) :
       compareVersions(versions[i].builderVersion, query.args[2]) > 0
  /\ \E i \in 1..Len(versions) :
       compareVersions(query.args[1], versions[i].builderVersion) >= 0

\* ---- C13: whatever the order of the catalog, the list getPendingUpgrades
\* returns is sorted ascending by target under the comparator, and steps whose
\* targets compare equal keep their catalog order.
C13_SortedStable ==
  query.op = "getPendingUpgrades" =>
    \A i, j \in 1..Len(query.value) :
      i < j =>
        LET c == compareVersions(query.value[i].builderVersion,
                                 query.value[j].builderVersion)
        IN c <= 0 /\ (c = 0 => query.value[i].id < query.value[j].id)

\* the step listed first comes out last, behind two steps written
\* differently whose targets compare equal
C13_Witness ==
  /\ query.op = "getPendingUpgrades"
  /\ Len(query.value) = 3
  /\ query.value[3].id = 1
  /\ query.value[1].builderVersion # query.value[2].builderVersion
  /\ compareVersions(query.value[1].builderVersion,
                     query.value[2].builderVersion) = 0

\* ---- C14: needsUpgrade(saved, current) is true, without a saved version,
\* iff some step's target compares <= current or some step of the catalog
\* (pending or not) defines whatsNew; with a saved version, iff saved compares
\* below current.
C14_NeedsUpgrade ==
  query.op = "needsUpgrade" =>
    LET saved == query.args[1]
        current == query.args[2]
    IN IF saved = Null
       THEN query.value <=>
              \/ \E i \in 1..Len(versions) :
                   compareVersions(versions[i].builderVersion, current) <= 0
              \/ \E i \in 1..Len(versions) : versions[i].whatsNew
       ELSE /\ query.value <=> compareVersions(saved, current) < 0
            /\ compareVersions(saved, current) >= 0 => ~query.value

\* no saved version, nothing pending, and a step above current defines
\* whatsNew
C14_Witness ==
  /\ query.op = "needsUpgrade"
  /\ query.args[1] = Null
  /\ query.value = TRUE
  /\ versions # <<>>
  /\ \A i \in 1..Len(versions) :
       compareVersions(versions[i].builderVersion, query.args[2]) > 0

\* ---- C15: without an override the comparator orders two identifiers as the
\* sequences of the integers between their dots, the shorter padded with
\* zeros, the first unequal part deciding; parts compare as numbers, not as
\* strings (1.10.0 > 1.9.0), 1.2 equals 1.2.0 and 1.2 < 1.2.1.
\* Two strings of digits without leading zeros compare as numbers when the
\* longer is the greater and strings of one length compare digit by digit.
RECURSIVE DigitsBelow(_, _)
DigitsBelow(p, q) ==
  IF p = <<>> \/ q = <<>> THEN FALSE
  ELSE \/ p[1] < q[1]
       \/ p[1] = q[1] /\ DigitsBelow(Tail(p), Tail(q))

NumberBelow(p, q) ==
  Len(p) < Len(q) \/ (Len(p) = Len(q) /\ DigitsBelow(p, q))

PartOf(parts, i) == IF i <= Len(parts) THEN parts[i] ELSE <<0>>

OrderOf(a, b) ==
  LET n == Max(Len(a), Len(b))
      first == {i \in 1..n :
                  /\ PartOf(a, i) # PartOf(b, i)
                  /\ \A j \in 1..(i - 1) : PartOf(a, j) = PartOf(b, j)}
  IN IF first = {} THEN 0
     ELSE IF \E i \in first : NumberBelow(PartOf(a, i), PartOf(b, i)) THEN -1
     ELSE 1

C15_NumericPaddedOrder ==
  query.op = "compareVersions" =>
    /\ query.value = OrderOf(query.args[1], query.args[2])
    /\ query.args = << <<<<1>>, <<1, 0>>, <<0>>>>, <<<<1>>, <<9>>, <<0>>>> >>
         => query.value = 1
    /\ query.args = << <<<<1>>, <<2>>>>, <<<<1>>, <<2>>, <<0>>>> >>
         => query.value = 0
    /\ query.args = << <<<<1>>, <<2>>>>, <<<<1>>, <<2>>, <<1>>>> >>
         => query.value = -1

\* '1.10.0' was compared with '1.9.0'
C15_Witness ==
  /\ query.op = "compareVersions"
  /\ query.args = << <<<<1>>, <<1, 0>>, <<0>>>>, <<<<1>>, <<9>>, <<0>>>> >>
  /\ query.value = 1

\* ---- C16: on well-formed dotted-integer identifiers the default comparator
\* returns -1, 0 or 1, compare(a, b) = -compare(b, a), and compare(a, a) = 0.
C16_Antisymmetric ==
  query.op = "compareVersions" =>
    LET a == Segments(query.args[1])
        b == Segments(query.args[2])
    IN /\ query.value \in {-1, 0, 1}
       /\ query.value = 0 - defaultCompareVersions(b, a)
       /\ query.args[1] = query.args[2] => query.value = 0

\* a shorter identifier was compared with a longer one that extends it by a
\* part other than zero
C16_Witness ==
  /\ query.op = "compareVersions"
  /\ Len(query.args[1]) < Len(query.args[2])
  /\ SubSeq(query.args[2], 1, Len(query.args[1])) = query.args[1]
  /\ query.value = -1

\* ---- C17: when the pending list is empty, runUpgrades() (called directly
\* or by retryFromFailedStep) returns success with empty logs and upgradedTo
\* equal to the current version, emits no event, does not start running, and
\* leaves the logs and the failed-step list of the earlier run as they were.
C17_NothingPendingIsNoop ==
  [][(/\ ~isUpgrading
      /\ \/ /\ RunUpgrades
            /\ getPendingUpgrades(versions, savedVersion, builderVersion) = <<>>
         \/ /\ RetryFromFailedStep
            /\ getPendingUpgrades(RetryCatalog, savedVersion, builderVersion) = <<>>)
     => /\ returned'.result.success = TRUE
        /\ returned'.result.logs = <<>>
        /\ returned'.result.upgradedTo = builderVersion
        /\ returned'.result.error = ""
        /\ events' = events
        /\ frames' = frames
        /\ isUpgrading' = FALSE
        /\ currentStep' = currentStep
        /\ allLogs' = allLogs
        /\ failedSteps' = failedSteps]_vars

\* nothing was pending for a call made after a run that left logs and a
\* failed step
C17_Witness ==
  /\ returned.result.kind = "noop"
  /\ frames = <<>>
  /\ ~isUpgrading
  /\ allLogs # <<>>
  /\ failedSteps # <<>>
  /\ events # <<>>

C19_FailedStepHandledLocally ==
  [][/\ \A f \in FrameIds :
          ActionFails(f) =>
            /\ Len(frames') = Len(frames)
            /\ allLogs' = Append(allLogs, ErrorLog(StepOf(frames[f])))
            /\ failedSteps' = Append(failedSteps, StepOf(frames[f]).builderVersion)
            /\ builderVersion' = builderVersion
     /\ \A f \in 1..Len(frames') :
          \A i \in 1..Len(failedSteps') :
            failedSteps'[i] # frames'[f].lastSuccessfulVersion
     /\ returned'.result.kind \in RunKinds =>
          \A i \in 1..Len(returned'.result.failedSteps) :
            returned'.result.failedSteps[i] # returned'.result.upgradedTo]_vars

\* ---- C20: in a run with a non-empty pending list that does not fail
\* catastrophically the events come in this order: the run-started event
\* first, carrying the pending targets in ascending order; then for each
\* executed step its step-started event and its step-ended event, before the
\* next step's step-started event, with the run-level error event between the
\* two exactly when the step failed; and one run-ended event last.
EventPositions(name) ==
  LET named(k) == events[k].name = name
  IN SelectSeq([k \in 1..Len(events) |-> k], named)

\* the frame of the run the events belong to
EventFrames ==
  {frames[f] : f \in FrameIds}
    \cup (IF frames = <<>> /\ returned.result.kind = "completed"
          THEN {returned} ELSE {})

RunFrames ==
  {frames[f] : f \in FrameIds}
    \cup (IF frames = <<>> /\ returned.result.kind \in RunKinds
          THEN {returned} ELSE {})

IsEngineEntry(log) == log.kind \in {"upgraded", "failed"}

C22_AddedLogsKept ==
  [][/\ \A f \in FrameIds :
          (/\ Len(frames') = Len(frames)
           /\ frames[f].pc = "inAction"
           /\ frames'[f].pc = "inAction"
           /\ allLogs' # allLogs) =>
            /\ Len(allLogs') = Len(allLogs) + 1
            /\ SubSeq(allLogs', 1, Len(allLogs)) = allLogs
            /\ allLogs'[Len(allLogs')].kind = "added"
            /\ allLogs'[Len(allLogs')].step = StepOf(frames[f]).builderVersion
     /\ \A f \in FrameIds :
          ActionFails(f) => allLogs' = Append(allLogs, ErrorLog(StepOf(frames[f])))
     /\ \A f \in FrameIds :
          SkipResolves(f) => allLogs' = Append(allLogs, InfoLog(StepOf(frames[f])))
     /\ \A i, k \in 1..Len(allLogs') :
          (/\ allLogs'[i].kind = "added"
           /\ IsEngineEntry(allLogs'[k])
           /\ allLogs'[i].step = allLogs'[k].step) => i < k]_vars

\* a run returned whose first action added a log and then failed and whose
\* second added a log and succeeded: the result's logs hold all four entries
C22_Witness ==
  /\ returned.result.kind = "completed"
  /\ frames = <<>>
  /\ Len(allLogs) = 4
  /\ allLogs[1].kind = "added"
  /\ allLogs[2].kind = "failed"
  /\ allLogs[2].step = allLogs[1].step
  /\ allLogs[3].kind = "added"
  /\ allLogs[4].kind = "upgraded"
  /\ returned.result.logs = allLogs

\* ---- C23: runWhatsNew() invokes the whatsNew action of every step that is
\* pending between the saved version and the registry's current version and
\* has one, one after another in ascending order of target; a whatsNew
\* action that throws or rejects does not keep the later ones from being
\* invoked, and the call resolves once all have settled.
WhatsNewFrames == {fr \in AllFrames : fr.via = "whatsNew"}

\* the frame of the runWhatsNew() call this step makes, NoFrame if none
CalledWhatsNew ==
  IF calls' # calls + 1 THEN NoFrame
  ELSE IF Len(frames') = Len(frames) + 1 /\ frames'[Len(frames')].via = "whatsNew"
       THEN frames'[Len(frames')]
  ELSE IF frames' = frames /\ returned'.via = "whatsNew" THEN returned'
  ELSE NoFrame

StepIds(steps) == {steps[i].id : i \in 1..Len(steps)}

C23_AnnouncementsInOrder ==
  [][/\ CalledWhatsNew.via = "whatsNew" =>
          /\ StepIds(CalledWhatsNew.pendingSteps) =
               {versions[i].id : i \in
                  {j \in 1..Len(versions) :
                     /\ versions[j].whatsNew
                     /\ IsPending(versions[j], savedVersion, builderVersion)}}
          /\ IsInjective(CalledWhatsNew.pendingSteps)
     /\ \A f \in 1..Len(frames') :
          frames'[f].via = "whatsNew" => frames'[f].pc = "inWhatsNew"
     /\ \A fr \in WhatsNewFrames' :
          /\ \A i, j \in 1..Len(fr.pendingSteps) :
               i < j => compareVersions(fr.pendingSteps[i].builderVersion,
                                        fr.pendingSteps[j].builderVersion) < 0
          /\ fr.invoked = SubSeq(fr.pendingSteps, 1, Len(fr.invoked))
          /\ \A i \in 1..Len(fr.outcomes) :
               fr.outcomes[i] = "pending" =>
                 i = Len(fr.outcomes) /\ fr.pc = "inWhatsNew"
          /\ fr.pc = "done" =>
               /\ fr.invoked = fr.pendingSteps
               /\ fr.result = Resolved]_vars

\* a runWhatsNew() call returned after the first of its two whatsNew actions
\* failed and the second succeeded
C23_Witness ==
  /\ returned.via = "whatsNew"
  /\ returned.pc = "done"
  /\ Len(returned.pendingSteps) = 2
  /\ returned.outcomes = <<"fail", "ok">>
  /\ returned.result = Resolved

\* ---- C24: which whatsNew actions runWhatsNew() invokes after a run does
\* not depend on the outcomes of the run's upgrade actions: called on an
\* idle engine after a run, the saved version being the one the run saw, it
\* invokes the announcements pending between the saved version and the
\* configured current version, which are those it invokes after a run whose
\* steps all succeeded.
AfterRun(fr) ==
  /\ frames = <<>>
  /\ fr.via = "run"
  /\ fr.result.kind \in RunKinds
  /\ fr.savedAtCall = savedVersion

AnnouncedAfterFullSuccess ==
  StepIds(getPendingWhatsNew(versions, savedVersion, configured))

C24_AnnouncementsIndependentOfOutcome ==
  [][(CalledWhatsNew.via = "whatsNew" /\ AfterRun(returned)) =>
       StepIds(CalledWhatsNew.pendingSteps) = AnnouncedAfterFullSuccess]_vars

\* ---- C25: when the about-to-persist signal fires the store hook sets the
\* blob's version field to the registry's current version and leaves every
\* other field of the blob as it was.
C25_StoreKeepsOtherFields ==
  query.op = "storage:start:store" =>
    /\ DOMAIN query.value = DOMAIN query.args[1]
    /\ query.value[VersionKey] = builderVersion
    /\ \A k \in DOMAIN query.args[1] :
         k # VersionKey => query.value[k] = query.args[1][k]

\* a blob tagged with an older version went through the store hook
C25_Witness ==
  /\ query.op = "storage:start:store"
  /\ query.args[1][VersionKey] = V10
  /\ query.value[VersionKey] = V12
  /\ query.value["gjs-html"] = "<div>Content</div>"
  /\ query.value["gjs-css"] = ".style { margin: 0; }"

\* ---- C26: after the load hook has handled loaded data, getSavedVersion()
\* returns the version tag of that data, and null when the data is null or
\* has no version tag, whatever was loaded before.
TagOf(data) == IF data = Null THEN Null ELSE data[VersionKey]

C26_SavedVersionIsLastLoaded ==
  query.op = "storage:load" =>
    /\ query.value = savedVersion
    /\ savedVersion = TagOf(query.args[1])

C28_FirstRunAnnounced ==
  [][(LoadFinished /\ savedVersion = Null /\ hasWhatsNewSteps(versions)) =>
       \E k \in (Len(events) + 1)..Len(events') :
         events'[k] = [name |-> "version:outdated", savedVersion |-> Null,
                       currentVersion |-> builderVersion]]_vars

\* ---- C29: when the plugin is initialised without a continueOnError
\* option, once the action of a step has failed no later action is invoked
\* in that run.
C29_DefaultHalts ==
  (Started /\ "continueOnError" \notin DOMAIN query.args[1]) =>
    \A fr \in AllFrames :
      \A i \in Indices(fr, "fail") : i = Len(fr.invoked)

\* ---- C30: when the configuration has no current version, a versions value
\* that is not a list, or an entry without a target or without a callable
\* upgrade, the plugin function returns undefined, changes nothing, and no
\* hook or API call ever acts afterwards.
Refused(opts) ==
  \/ opts.builderVersion = Null
  \/ ~opts.versions.isArray
  \/ \E i \in 1..Len(opts.versions.steps) :
       \/ opts.versions.steps[i].builderVersion = Null
       \/ ~opts.versions.steps[i].upgrade

C30_InvalidOptionsStartNothing ==
  [][/\ (query.op = "none" /\ Refused(query.args[1])) =>
          /\ query' = [op |-> "plugin", args |-> query.args, value |-> Null]
          /\ UNCHANGED <<versions, builderVersion, continueOnError, savedVersion,
                         isUpgrading, currentStep, allLogs, failedSteps, frames,
                         returned, calls, idleStorage, events, storedTag,
                         configured, lastOk, lastApplied, throwsLeft>>
     /\ (query.op = "plugin" /\ Refused(query.args[1])) => FALSE]_vars

\* the plugin function has returned undefined for options whose only flaw
\* is a second entry without a callable upgrade
C30_Witness ==
  /\ query.op = "plugin"
  /\ query.value = Null
  /\ query.args[1].builderVersion = V20
  /\ query.args[1].versions.isArray
  /\ Len(query.args[1].versions.steps) = 2
  /\ query.args[1].versions.steps[1] =
       [builderVersion |-> V11, upgrade |-> TRUE, whatsNew |-> FALSE]
  /\ query.args[1].versions.steps[2] =
       [builderVersion |-> V20, upgrade |-> FALSE, whatsNew |-> TRUE]

\* ---- C31: the registry's saved version is changed only by the load hook:
\* runUpgrades(), retryFromFailedStep(), runWhatsNew(), the store hook and
\* every later step of a run, updateVersion included, leave it as it was.
C31_SavedVersionOnlyByLoad ==
  [][savedVersion' # savedVersion =>
       /\ StorageLoad
       /\ frames' = frames
       /\ calls' = calls]_vars

\* a run has applied a step and lowered the registry's current version, the
\* store hook has written it and runWhatsNew() has returned: no version is
\* saved yet
C31_Witness ==
  /\ returned.via = "whatsNew"
  /\ frames = <<>>
  /\ lastOk # Null
  /\ builderVersion = lastOk
  /\ storedTag = lastOk
  /\ savedVersion = Null

\* ---- C32: after a run in which every pending step succeeded the host's
\* project data carries the version the run upgraded to.  The engine writes
\* the project data through the store hook only, so the tag it carries is
\* the one the hook wrote last.
C32_RunPersistsVersion ==
  (frames = <<>> /\ FullySucceeded(returned)) =>
    storedTag = returned.result.upgradedTo

\* ---- C33: getCurrentStep() is non-null only while the upgrade action of a
\* step is in flight: it is null while the listeners of the run-started and
\* of the run-ended event run, and whenever isRunning() is false.
C33_CurrentStepOnlyInFlight ==
  /\ currentStep # NoStep => \E f \in FrameIds : frames[f].pc = "inAction"
  /\ \A f \in FrameIds :
       frames[f].pc \in {"emitRunStart", "emitRunEnd"} => currentStep = NoStep
  /\ ~isUpgrading => currentStep = NoStep

\* ---- C33, as the code has it: getCurrentStep() is null whenever isRunning() is
\* false and while the listeners of the run-started event run; from the head
\* of the loop's first iteration until the run returns it is the step the
\* loop reached last, also between two actions and while the listeners of
\* the run-ended event run.
C33_CurrentStepUntilReturn ==
  /\ ~isUpgrading => currentStep = NoStep
  /\ frames = <<>> => currentStep = NoStep
  /\ \A f \in FrameIds :
       IF frames[f].pc = "emitRunStart"
       THEN currentStep = NoStep
       ELSE /\ frames[f].idx \in 1..Len(frames[f].pendingSteps)
            /\ currentStep = StepOf(frames[f])

\* the listeners of the run-ended event run after a run of two steps: the
\* current step is still the second
C33_Witness ==
  /\ Len(frames) = 1
  /\ frames[1].pc = "emitRunEnd"
  /\ Len(frames[1].invoked) = 2
  /\ currentStep = frames[1].pendingSteps[2]
  /\ isUpgrading

\* ---- C34: while the listeners of a succeeding step's step-ended event run,
\* the event's log holds every entry appended to the run's logs during that
\* step, the entries of addLog and then the derived info entry, in order.
C34_StepEndedCarriesStepLogs ==
  \A f \in FrameIds :
    frames[f].pc = "emitStepEnd" =>
      /\ events[Len(events)].name = "version:versionUpgrade:end"
      /\ events[Len(events)].toVersion = StepOf(frames[f]).builderVersion
      /\ events[Len(events)].log =
           SelectSeq(allLogs,
                     LAMBDA l : l.step = StepOf(frames[f]).builderVersion)

C36_RetryRestoresCatalog ==
  [][/\ versions' = versions
     /\ (calls' # calls /\ isUpgrading) =>
          /\ returned'.result.kind = "rejected"
          /\ frames' = frames
          /\ UNCHANGED <<isUpgrading, currentStep, allLogs, failedSteps,
                         events, registry>>]_vars

\* a retry was rejected while the second action of a run was in flight, the
\* first having failed: the catalog it handed to runUpgrades() was not the
\* registry's, and the registry's catalog is what it was
C36_Witness ==
  /\ returned # NoFrame
  /\ returned.via = "retry"
  /\ returned.result.kind = "rejected"
  /\ Len(frames) = 1
  /\ frames[1].pc = "inAction"
  /\ failedSteps # <<>>
  /\ RetryCatalog # versions

\* ---- C37: the registry's current version never compares higher than the
\* configured version; once a run in which a step succeeded has returned it
\* is the target of the last step that succeeded in that run; and it changes
\* only when a step succeeds, so a run without a success leaves it alone.
C37_CurrentVersionFollowsRuns ==
  /\ [](compareVersions(builderVersion, configured) <= 0)
  /\ []((/\ frames = <<>>
         /\ returned.result.kind \in RunKinds
         /\ Indices(returned, "ok") # {}) =>
           builderVersion = LastOkTarget(returned))
  /\ [][builderVersion' # builderVersion =>
          \E f \in FrameIds :
            /\ SkipResolves(f)
            /\ builderVersion' = StepOf(frames[f]).builderVersion]_vars

\* a run has returned over a catalog that lists 1.1 and 2.1: the step to 1.1
\* succeeded, the step to 2.1 was not pending, and the current version is
\* 1.1, below the configured 2.0
C37_Witness ==
  /\ frames = <<>>
  /\ returned.result.kind = "completed"
  /\ returned.outcomes = <<"ok">>
  /\ \E i \in 1..Len(versions) : versions[i].builderVersion = V21
  /\ builderVersion = V11
  /\ compareVersions(builderVersion, configured) < 0

\* ---- C38: the steps of a run are fixed when it starts: whatever load,
\* store or change of the current version arrives while it is in flight, the
\* list the run iterates stays the one computed at the call, and the actions
\* it has invoked are the first steps of that list, in its order.
C38_StepsFixedAtStart ==
  /\ [][/\ (frames # <<>> /\ frames' # <<>>) =>
            frames'[1].pendingSteps = frames[1].pendingSteps
        /\ (frames # <<>> /\ frames' = <<>>) =>
            returned'.pendingSteps = frames[1].pendingSteps
        /\ (frames = <<>> /\ frames' # <<>>) =>
            \E catalog \in {versions, RetryCatalog} :
              frames'[1].pendingSteps =
                getPendingUpgrades(catalog, savedVersion, builderVersion)]_vars
  /\ [](Len(frames) <= 1)
  /\ [](\A fr \in AllFrames :
          /\ Len(fr.invoked) <= Len(fr.pendingSteps)
          /\ fr.invoked = SubSeq(fr.pendingSteps, 1, Len(fr.invoked)))
  /\ []((/\ frames = <<>>
         /\ returned.result.kind = "completed"
         /\ continueOnError) => returned.invoked = returned.pendingSteps)

\* the second action of the first run is in flight; since the call a load has
\* set the saved version to 1.1, the first step has changed the current
\* version and a store has written it: computed now, the pending steps
\* would differ from the steps of the run
C38_Witness ==
  /\ calls = 1
  /\ Len(frames) = 1
  /\ frames[1].pc = "inAction"
  /\ Len(frames[1].invoked) = 2
  /\ frames[1].savedAtCall = Null
  /\ savedVersion = V11
  /\ builderVersion # configured
  /\ storedTag = builderVersion
  /\ getPendingUpgrades(versions, savedVersion, builderVersion)
       # frames[1].pendingSteps

====
